---- MODULE Spec2Model ----
(***************************************************************************)
(* A model of news_crawler/scraper.py: the batched crawl / extract / save  *)
(* pipeline and the helper functions that name the archive files.          *)
(*                                                                         *)
(* Text is modelled as a sequence of characters, each an ASCII character   *)
(* or the code point ("U+00E9") of a non-ASCII one, so that                *)
(* transliteration, stripping, truncation, parsing and formatting are      *)
(* computed character by character as the code computes them.              *)
(***************************************************************************)
EXTENDS Integers, Sequences, FiniteSets, TLC

VARIABLES
    \* ---- clean_filename called on its own (SpecSanitize)
    title,                   \* the title handed to clean_filename
    title_clean,             \* what clean_filename returned, NotRun before the call
    \* ---- the run's environment and globals (scraper.py 197-208)
    os_type,                 \* platform.system()
    str_zero_pad,            \* the interpreter formats a str with a "02" spec (3.10+)
    configFile,              \* the list of base_urls in config.yml on disk
    config,                  \* the configuration object loaded at line 199
    run_once,
    max_workers,
    sources_per_batch,
    base_archive_directory,
    first_run,
    \* ---- the archive tree on disk
    dirs,                    \* the directories that exist
    files,                   \* the files that exist: path -> the article written last
    \* ---- the main thread (scraper.py 210-230)
    pc,                      \* where the main thread is
    stopped_by,              \* why the main loop ended
    cycle,                   \* cycles started so far
    source_urls,             \* the list get_source_urls returned for this cycle
    i,                       \* the loop variable of the batch loop (0-based offset)
    batches,                 \* the slices the batch loop has taken in this cycle
    \* ---- the crawler object of the current batch
    batch_urls,
    sources,                 \* crawler.sources
    k,                       \* position inside the loop the main thread is in
    a,                       \* position of the article loop of extract_information
    futures,                 \* build tasks of the executor: source index -> state
    fetches,                 \* fetch_news tasks: source index -> state
    crawl_raised,            \* fetch_news raised into crawl_articles
    \* ---- save_article
    last_save,               \* what the last call of save_article did
    resolved,                \* every (brand, publish_date, title) resolved so far, with its path
    calls                    \* calls made so far when save_article is driven on its own

vars == <<title, title_clean, os_type, str_zero_pad, configFile, config, run_once,
          max_workers, sources_per_batch, base_archive_directory, first_run,
          dirs, files, pc, stopped_by, cycle, source_urls, i, batches, batch_urls, sources,
          k, a, futures, fetches, crawl_raised, last_save, resolved, calls>>

(* Python values whose type the code tests at run time carry their type. *)
None == [t |-> "None"]

StrVal(s) == [t |-> "str", v |-> s]

IntVal(n) == [t |-> "int", v |-> n]

DatetimeVal(y, m, d) == [t |-> "datetime", year |-> y, month |-> m, day |-> d]

NotRun == [t |-> "NotRun"]

-----------------------------------------------------------------------------
(* Text helpers *)

Digits == <<"0", "1", "2", "3", "4", "5", "6", "7", "8", "9">>

IsDigit(c) == \E d \in 1..10 : Digits[d] = c

DigitVal(c) == (CHOOSE d \in 1..10 : Digits[d] = c) - 1

Take(s, n) == SubSeq(s, 1, IF Len(s) < n THEN Len(s) ELSE n)

Drop(s, n) == SubSeq(s, n + 1, Len(s))

Rep(c, n) == [j \in 1..n |-> c]

\* The concatenation of a sequence of sequences, by halves
RECURSIVE Flatten(_)
Flatten(ss) ==
    IF ss = <<>> THEN <<>>
    ELSE IF Len(ss) = 1 THEN ss[1]
    ELSE Flatten(SubSeq(ss, 1, Len(ss) \div 2))
         \o Flatten(SubSeq(ss, (Len(ss) \div 2) + 1, Len(ss)))

\* str(n) for an int n >= 0
RECURSIVE str_int(_)
str_int(n) == IF n < 10 THEN <<Digits[n + 1]>>
              ELSE str_int(n \div 10) \o <<Digits[(n % 10) + 1]>>

\* int(s) for a string of decimal digits
RECURSIVE int_str(_)
int_str(s) == IF s = <<>> THEN 0
              ELSE 10 * int_str(SubSeq(s, 1, Len(s) - 1)) + DigitVal(s[Len(s)])

\* format(n, "02") and format(n, "02d") for an int n >= 0: zero-padded to width 2
fmt02_int(n) == IF n < 10 THEN <<"0">> \o str_int(n) ELSE str_int(n)

-----------------------------------------------------------------------------
(* clean_filename, scraper.py 37-59 *)

max_length == 255

windows_restricted_chars == {"<", ">", ":", "\"", "/", "\\", "|", "?", "*"}

linux_restricted_chars == {"<", ">", ":", "\"", "/", "\\", "|", "?", "*", "'"}

unknown_title == <<"u", "n", "k", "n", "o", "w", "n", "_", "t", "i", "t", "l", "e">>

\* unidecode of one character: ASCII is kept, anything else is replaced by its
\* ASCII rendering, which may be longer than one character and may be a
\* character the two patterns above remove.
unidecode_char(c) ==
    CASE c = "U+00E9" -> <<"e">>              \* e with acute accent
      [] c = "U+00DF" -> <<"s", "s">>         \* sharp s
      [] c = "U+00AB" -> <<"<", "<">>         \* left guillemet
      [] c = "U+2019" -> <<"'">>              \* right single quotation mark
      [] OTHER -> <<c>>

unidecode(s) == Flatten([j \in 1..Len(s) |-> unidecode_char(s[j])])

\* re.sub(pattern, '', s) for a pattern that is one character class
re_sub(class, s) == SelectSeq(s, LAMBDA c : c \notin class)

\* s.rstrip(chars): s up to its last character that is not in chars
rstrip(s, chars) ==
    LET kept == {j \in 1..Len(s) : s[j] \notin chars}
    IN IF kept = {} THEN <<>>
       ELSE SubSeq(s, 1, CHOOSE j \in kept : \A q \in kept : q <= j)

\* str.lower() on the values platform.system() returns
lower(s) == CASE s = "Linux" -> "linux"
              [] s = "Windows" -> "windows"
              [] s = "Darwin" -> "darwin"
              [] OTHER -> s

\* The order a careless edit would produce: the characters are removed before
\* the title is transliterated, and the cut to max_length comes first.
clean_filename_strip_first(t, os) ==
    IF t.t # "str" THEN unknown_title
    ELSE IF lower(os) = "linux"
         THEN unidecode(re_sub(linux_restricted_chars, t.v))
         ELSE unidecode(rstrip(re_sub(windows_restricted_chars, Take(t.v, max_length)),
                               {".", " "}))

\* A title that is no string makes unidecode raise, which ends in the except
\* branch (57-59); os_type is a string, platform.system() returns nothing else.
clean_filename(t, os) ==
    IF t.t # "str" THEN unknown_title
    ELSE LET title_ascii == unidecode(t.v) IN
         IF lower(os) = "linux"
         THEN re_sub(linux_restricted_chars, title_ascii)
         ELSE Take(rstrip(re_sub(windows_restricted_chars, title_ascii), {".", " "}),
                   max_length)

-----------------------------------------------------------------------------
(* extract_year_month_day, scraper.py 61-77 *)

ValueError == [t |-> "ValueError"]

\* The text cut into runs of digits and single other characters
RECURSIVE digit_run(_)
digit_run(s) == IF s # <<>> /\ IsDigit(Head(s)) THEN 1 + digit_run(Tail(s)) ELSE 0

RECURSIVE tokens(_)
tokens(s) ==
    IF s = <<>> THEN <<>>
    ELSE IF IsDigit(Head(s))
         THEN <<Take(s, digit_run(s))>> \o tokens(Drop(s, digit_run(s)))
         ELSE <<<<Head(s)>>>> \o tokens(Tail(s))

is_leap(y) == (y % 4 = 0 /\ y % 100 # 0) \/ y % 400 = 0

days_in_month(y, m) ==
    IF m = 2 THEN (IF is_leap(y) THEN 29 ELSE 28)
    ELSE IF m \in {4, 6, 9, 11} THEN 30 ELSE 31

\* A field of the format: a run of lo..hi digits whose value is in min..max
field_ok(tok, lo, hi, min, max) ==
    /\ Len(tok) \in lo..hi
    /\ \A j \in 1..Len(tok) : IsDigit(tok[j])
    /\ int_str(tok) \in min..max

\* datetime.strptime(text, "%Y-%m-%dT%H:%M:%S"): the datetime, or ValueError when
\* the text does not match the format, text remains after it, or the date does
\* not exist.
strptime(text) ==
    LET tk == tokens(text) IN
    IF /\ Len(tk) = 11
       /\ tk[2] = <<"-">> /\ tk[4] = <<"-">> /\ tk[6] = <<"T">>
       /\ tk[8] = <<":">> /\ tk[10] = <<":">>
       /\ field_ok(tk[1], 4, 4, 1, 9999)
       /\ field_ok(tk[3], 1, 2, 1, 12)
       /\ field_ok(tk[5], 1, 2, 1, 31)
       /\ field_ok(tk[7], 1, 2, 0, 23)
       /\ field_ok(tk[9], 1, 2, 0, 59)
       /\ field_ok(tk[11], 1, 2, 0, 59)
       /\ int_str(tk[5]) <= days_in_month(int_str(tk[1]), int_str(tk[3]))
    THEN DatetimeVal(int_str(tk[1]), int_str(tk[3]), int_str(tk[5]))
    ELSE ValueError

no_year_month_day == [year |-> None, month |-> None, day |-> None]

\* year is an int, month and day are two-digit strings; every failure inside
\* the try block ends in the except branch, which returns three Nones.
extract_year_month_day(timestamp) ==
    LET dt == IF timestamp.t = "str" THEN strptime(timestamp.v)
              ELSE IF timestamp.t = "datetime" THEN timestamp
              ELSE ValueError
    IN IF dt = ValueError THEN no_year_month_day
       ELSE [year |-> IntVal(dt.year), month |-> StrVal(fmt02_int(dt.month)),
             day |-> StrVal(fmt02_int(dt.day))]

-----------------------------------------------------------------------------
(* create_directories and save_article, scraper.py 79-125 *)

\* What the file system and article.to_json() do during one save_article call
SaveEnvs == {"ok", "makedirs_fails", "makedirs_fails_midway", "to_json_raises",
             "open_fails", "write_fails"}

Prefixes(path) == {SubSeq(path, 1, n) : n \in 1..Len(path)}

Missing(path, tree) == {p \in Prefixes(path) : p \notin tree}

\* os.makedirs(path, exist_ok=True): the missing directories are created from
\* the top; a failure may come after some of them were created.
makedirs(path, tree, env) ==
    LET missing == Missing(path, tree)
        first == CHOOSE p \in missing : \A q \in missing : Len(p) <= Len(q)
    IN CASE env = "makedirs_fails" -> [raised |-> TRUE, tree |-> tree]
         [] env = "makedirs_fails_midway" ->
                [raised |-> TRUE,
                 tree |-> IF Cardinality(missing) > 1 THEN tree \cup {first} ELSE tree]
         [] OTHER -> [raised |-> FALSE, tree |-> tree \cup missing]

\* A create_directories that calls makedirs without looking first
create_directories_unchecked(path, tree, env) == makedirs(path, tree, env)

\* create_directories: nothing is done for a directory that exists; a failure
\* of makedirs is logged and raised again (87-89).
create_directories(path, tree, env) ==
    IF path \in tree THEN [raised |-> FALSE, tree |-> tree]
    ELSE makedirs(path, tree, env)

\* format(v, "02"): an int is zero-padded; a str is padded with "0" on the right
\* by interpreters from 3.10 on and raises ValueError on older ones.
can_format_02(v, zero_pad) == v.t = "int" \/ (v.t = "str" /\ zero_pad)

format_02(v) ==
    IF v.t = "int" THEN fmt02_int(v.v)
    ELSE IF Len(v.v) < 2 THEN v.v \o Rep("0", 2 - Len(v.v)) ELSE v.v

\* str(v) of an int or a str
py_str(v) == IF v.t = "int" THEN str_int(v.v) ELSE v.v

json_suffix == <<".", "j", "s", "o", "n">>

\* Lines 99-104: a missing year or month becomes the int 0
year_or_0(ymd) == IF ymd.year = None THEN IntVal(0) ELSE ymd.year

month_or_0(ymd) == IF ymd.month = None THEN IntVal(0) ELSE ymd.month

\* Lines 106-110: the day is part of the name when there is one
filename_of(ymd, clean_title) ==
    IF ymd.day # None
    THEN format_02(year_or_0(ymd)) \o <<"-">> \o format_02(month_or_0(ymd)) \o <<"-">>
         \o format_02(ymd.day) \o <<" ">> \o clean_title \o json_suffix
    ELSE format_02(year_or_0(ymd)) \o <<"-">> \o format_02(month_or_0(ymd))
         \o <<" ">> \o clean_title \o json_suffix

filename_raises(ymd, zero_pad) ==
    \/ ~can_format_02(year_or_0(ymd), zero_pad)
    \/ ~can_format_02(month_or_0(ymd), zero_pad)
    \/ (ymd.day # None /\ ~can_format_02(ymd.day, zero_pad))

\* Line 112: os.path.join(base_archive_directory, source.brand, str(year), str(month))
save_directory_of(base, brand, ymd) ==
    base \o <<brand, py_str(year_or_0(ymd)), py_str(month_or_0(ymd))>>

no_path == <<>>

\* A save_article that gives up on an article without a usable date
save_article_skipping_undated(article, brand, base, os, zero_pad, tree, written, env) ==
    LET clean_title == clean_filename(article.title, os)
        ymd == extract_year_month_day(article.publish_date)
        filename == filename_of(ymd, clean_title)
        save_directory == save_directory_of(base, brand, ymd)
        made == create_directories(save_directory, tree, env)
        save_path == save_directory \o <<filename>>
    IN IF ymd.year = None \/ filename_raises(ymd, zero_pad) \/ made.raised
          \/ env = "to_json_raises"
       THEN [raised |-> "skipped", ymd |-> ymd, save_directory |-> no_path,
             filename |-> no_path, wrote |-> FALSE, dirs |-> tree, files |-> written]
       ELSE [raised |-> "none", ymd |-> ymd,
             save_directory |-> save_directory, filename |-> filename,
             wrote |-> env \notin {"open_fails", "write_fails"},
             dirs |-> made.tree,
             files |-> IF env = "open_fails" THEN written
                       ELSE written \cup {save_path}]

\* A save_article that avoids overwriting: a name that is taken gets a suffix
save_article_numbering(article, brand, base, os, zero_pad, tree, written, env) ==
    LET clean_title == clean_filename(article.title, os)
        ymd == extract_year_month_day(article.publish_date)
        save_directory == save_directory_of(base, brand, ymd)
        plain == filename_of(ymd, clean_title)
        filename == IF save_directory \o <<plain>> \in written
                    THEN filename_of(ymd, clean_title \o <<" ", "(", "1", ")">>)
                    ELSE plain
        made == create_directories(save_directory, tree, env)
        save_path == save_directory \o <<filename>>
    IN IF filename_raises(ymd, zero_pad) \/ made.raised \/ env = "to_json_raises"
       THEN [raised |-> "raised", ymd |-> ymd, save_directory |-> save_directory,
             filename |-> filename, wrote |-> FALSE, dirs |-> tree, files |-> written]
       ELSE [raised |-> "none", ymd |-> ymd,
             save_directory |-> save_directory, filename |-> filename,
             wrote |-> env \notin {"open_fails", "write_fails"},
             dirs |-> made.tree,
             files |-> IF env = "open_fails" THEN written
                       ELSE written \cup {save_path}]

\* save_article as a function of the article, the source's brand, the globals
\* and the archive tree: what it resolved, where it stopped, and the tree after
\* it. "raised" names the step whose exception reached the outer except (124);
\* a failure of open or write is caught by the inner except (121).
save_article(article, brand, base, os, zero_pad, tree, written, env) ==
    LET clean_title == clean_filename(article.title, os)
        ymd == extract_year_month_day(article.publish_date)
        filename == filename_of(ymd, clean_title)
        save_directory == save_directory_of(base, brand, ymd)
        made == create_directories(save_directory, tree, env)
        save_path == save_directory \o <<filename>>
    IN IF filename_raises(ymd, zero_pad)
       THEN [raised |-> "filename", ymd |-> ymd, save_directory |-> no_path,
             filename |-> no_path, wrote |-> FALSE, dirs |-> tree, files |-> written]
       ELSE IF made.raised
       THEN [raised |-> "create_directories", ymd |-> ymd,
             save_directory |-> save_directory, filename |-> filename,
             wrote |-> FALSE, dirs |-> made.tree, files |-> written]
       ELSE IF env = "to_json_raises"
       THEN [raised |-> "to_json", ymd |-> ymd,
             save_directory |-> save_directory, filename |-> filename,
             wrote |-> FALSE, dirs |-> made.tree, files |-> written]
       ELSE [raised |-> "none", ymd |-> ymd,
             save_directory |-> save_directory, filename |-> filename,
             wrote |-> env \notin {"open_fails", "write_fails"},
             dirs |-> made.tree,
             files |-> IF env = "open_fails" THEN written
                       ELSE written \cup {save_path}]

-----------------------------------------------------------------------------
(* Bounds and inputs of the pipeline *)

MaxSources == 3          \* the longest list of sources in config.yml
MaxArticles == 2         \* the most articles build() discovers for one source
MaxCycles == 2           \* cycles the model follows

\* The settings the pipeline is followed with: sources_per_batch and max_workers
Pools == {<<1, 1>>, <<2, 1>>, <<2, 2>>}

AllUrls == <<"http://bbc.example", "http://cnn.example", "http://news.bbc.example",
             "http://dw.example">>

\* Source.brand: the domain name of the url
brand_of(url) ==
    CASE url = "http://bbc.example" -> <<"b", "b", "c">>
      [] url = "http://news.bbc.example" -> <<"b", "b", "c">>
      [] url = "http://cnn.example" -> <<"c", "n", "n">>
      [] OTHER -> <<"d", "w">>

\* The news_sources mappings a configuration may hold, in the order of the file
ConfigLists == {[j \in 1..n |-> [base_url |-> AllUrls[j]]] : n \in 0..MaxSources}

\* The articles a site may publish, in the order build() finds them
Published ==
    <<[title |-> StrVal(<<"U+00E9", ":", "a">>),
       publish_date |-> StrVal(<<"2", "0", "2", "4", "-", "0", "3", "-", "0", "5", "T",
                                 "1", "0", ":", "0", "0", ":", "0", "0">>)],
      [title |-> StrVal(<<"b", "'">>), publish_date |-> None],
      [title |-> None, publish_date |-> DatetimeVal(2023, 12, 31)]>>

OsTypes == {"Linux", "Windows", "Darwin"}

\* The machines the pipeline is followed on: platform.system(), whether the
\* interpreter is 3.10 or later, and whether the configured base_archive_dir exists
Machines == {<<"Linux", TRUE, TRUE>>, <<"Windows", TRUE, FALSE>>, <<"Darwin", FALSE, TRUE>>}

configured_base == << <<"s", "r", "v">> >>

cwd == << <<"c", "w", "d">> >>

fetch_threads == 4       \* fetch_news(self.sources, threads=4)

san_vars == <<title, title_clean>>

\* what the run reads once and never assigns again
env_vars == <<os_type, str_zero_pad, run_once, max_workers, sources_per_batch>>

crawler_vars == <<batches, batch_urls, sources, k, a, futures, fetches, crawl_raised>>

save_vars == <<last_save, resolved, calls>>

-----------------------------------------------------------------------------
(* The state before line 197 *)

IdleSanitizer == title = None /\ title_clean = NotRun

IdleCrawler ==
    /\ batches = <<>>
    /\ batch_urls = <<>>
    /\ sources = <<>>
    /\ k = 1
    /\ a = 1
    /\ futures = <<>>
    /\ fetches = <<>>
    /\ crawl_raised = FALSE
    /\ last_save = NotRun
    /\ resolved = {}
    /\ calls = 0

Init ==
    /\ IdleSanitizer
    /\ \E m \in Machines :
         /\ os_type = m[1]
         /\ str_zero_pad = m[2]
         /\ dirs = IF m[3] THEN {cwd, configured_base} ELSE {cwd}
    /\ configFile \in ConfigLists
    /\ config = <<>>
    /\ run_once \in BOOLEAN
    /\ \E p \in Pools : sources_per_batch = p[1] /\ max_workers = p[2]
    /\ base_archive_directory = no_path
    /\ first_run = TRUE
    /\ files = {}
    /\ pc = "start"
    /\ stopped_by = "running"
    /\ cycle = 0
    /\ source_urls = <<>>
    /\ i = 0
    /\ IdleCrawler

-----------------------------------------------------------------------------
(* Start-up, scraper.py 197-208 *)

local_directory == cwd \o << <<"a", "r", "c", "h", "i", "v", "e">>, <<"n", "e", "w", "s">> >>

\* The slip that keeps using the configured directory after the fallback was made
check_and_create_base_directory_keeps_base(base_directory, tree, env) ==
    IF base_directory \notin tree
    THEN LET made == makedirs(local_directory, tree, env)
         IN [raised |-> made.raised, tree |-> made.tree, dir |-> base_directory]
    ELSE [raised |-> FALSE, tree |-> tree, dir |-> base_directory]

\* check_and_create_base_directory (23-35): the directory to use, or the
\* exception of makedirs raised again
check_and_create_base_directory(base_directory, tree, env) ==
    IF base_directory \notin tree
    THEN LET made == makedirs(local_directory, tree, env)
         IN [raised |-> made.raised, tree |-> made.tree, dir |-> local_directory]
    ELSE [raised |-> FALSE, tree |-> tree, dir |-> base_directory]

\* ConfigHandler.load_config: the content of the file at the time of the call
load_config(file) == file

\* A variant that reads config.yml again on every call
get_source_urls_reloading(cfg) ==
    [j \in 1..Len(load_config(configFile)) |-> load_config(configFile)[j].base_url]

\* get_source_urls (14-21): the base_url of every entry of the configuration
\* object it is given, in the order of the mapping
get_source_urls(cfg) == [j \in 1..Len(cfg) |-> cfg[j].base_url]

\* Lines 198-208. An exception of check_and_create_base_directory reaches the
\* except of line 229 and the program ends.
Startup ==
    /\ pc = "start"
    /\ config' = load_config(configFile)
    /\ first_run' = TRUE
    /\ \E env \in {"ok", "makedirs_fails", "makedirs_fails_midway"} :
         LET r == check_and_create_base_directory(configured_base, dirs, env) IN
         /\ dirs' = r.tree
         /\ IF r.raised
            THEN /\ pc' = "stopped"
                 /\ stopped_by' = "error"
                 /\ UNCHANGED base_archive_directory
            ELSE /\ pc' = "cycle"
                 /\ base_archive_directory' = r.dir
                 /\ UNCHANGED stopped_by
    /\ UNCHANGED <<san_vars, env_vars, configFile, files, cycle, source_urls, i,
                   crawler_vars, save_vars>>

-----------------------------------------------------------------------------
(* The cycle and batch loops, scraper.py 210-226 *)

Min(x, y) == IF x < y THEN x ELSE y

\* Lines 210-213: a new pass of the while loop
StartCycle ==
    /\ pc = "cycle"
    /\ cycle < MaxCycles
    /\ cycle' = cycle + 1
    /\ source_urls' = get_source_urls(config)
    /\ i' = 0
    /\ batches' = <<>>
    /\ pc' = "batch"
    /\ UNCHANGED <<san_vars, env_vars, configFile, config, base_archive_directory,
                   first_run, dirs, files, stopped_by, batch_urls, sources, k, a,
                   futures, fetches, crawl_raised, save_vars>>

\* A slice that is only taken when it is full
batch_slice_full_only(urls, from, size) ==
    IF from + size > Len(urls) THEN <<>> ELSE SubSeq(urls, from + 1, from + size)

\* source_urls[i:i+sources_per_batch]
batch_slice(urls, from, size) == SubSeq(urls, from + 1, Min(from + size, Len(urls)))

\* Lines 214-216: the next value of range(0, len(source_urls), sources_per_batch)
BeginBatch ==
    /\ pc = "batch"
    /\ i < Len(source_urls)
    /\ batch_urls' = batch_slice(source_urls, i, sources_per_batch)
    /\ batches' = Append(batches, batch_urls')
    /\ pc' = "init"
    /\ UNCHANGED <<san_vars, env_vars, configFile, config, base_archive_directory,
                   first_run, dirs, files, stopped_by, cycle, source_urls, i,
                   sources, k, a, futures, fetches, crawl_raised, save_vars>>

\* A loop whose break was forgotten
loop_exits_never(once) == FALSE

\* Lines 221-223: if run_once: break
loop_exits(once) == once

\* A flag that is flipped at the end of every cycle
first_run_flipped(flag) == ~flag

\* Line 226: first_run = False
first_run_after_cycle(flag) == FALSE

\* Lines 221-226: the range is exhausted
EndCycle ==
    /\ pc = "batch"
    /\ i >= Len(source_urls)
    /\ IF loop_exits(run_once)
       THEN pc' = "stopped" /\ stopped_by' = "run_once" /\ UNCHANGED first_run
       ELSE /\ pc' = "cycle"
            /\ first_run' = first_run_after_cycle(first_run)
            /\ UNCHANGED stopped_by
    /\ UNCHANGED <<san_vars, env_vars, configFile, config, base_archive_directory,
                   dirs, files, cycle, source_urls, i, crawler_vars, save_vars>>

-----------------------------------------------------------------------------
(* NewsCrawler.__init__, scraper.py 128-139 *)

\* A Source as the crawler holds it: build_calls counts the calls of build()
\* on it and build records how the call ended, articles is source.articles,
\* each article with what the loop of extract_information did with it and
\* the number of times the loop took it.
new_source(url, clean) ==
    [url |-> url, brand |-> brand_of(url), cache_cleaned |-> clean,
     build_calls |-> 0, build |-> "not_called", articles |-> <<>>]

\* Source(url) or clean_memo_cache() of url number n + 1 raises, or none does
\* (n = Len(urls)): the except of line 138 ends the loop with the sources
\* appended so far.
NewsCrawlerInit ==
    /\ pc = "init"
    /\ \E n \in 0..Len(batch_urls) :
         sources' = [j \in 1..n |-> new_source(batch_urls[j], first_run)]
    /\ futures' = [j \in 1..Len(sources') |-> "unsubmitted"]
    /\ fetches' = [j \in 1..Len(sources') |-> "idle"]
    /\ crawl_raised' = FALSE
    /\ k' = 1
    /\ a' = 1
    /\ pc' = "submit"
    /\ UNCHANGED <<san_vars, env_vars, configFile, config, base_archive_directory,
                   first_run, dirs, files, stopped_by, cycle, source_urls, i,
                   batches, batch_urls, save_vars>>

-----------------------------------------------------------------------------
(* NewsCrawler.build_source and build_sources, scraper.py 141-161 *)

Indices(f, state) == {j \in 1..Len(f) : f[j] = state}

AllIn(f, states) == \A j \in 1..Len(f) : f[j] \in states

\* Line 152, one executor.submit: the task joins the executor's queue
Submit ==
    /\ pc = "submit"
    /\ k <= Len(sources)
    /\ futures' = [futures EXCEPT ![k] = "queued"]
    /\ k' = k + 1
    /\ UNCHANGED <<san_vars, env_vars, configFile, config, base_archive_directory,
                   first_run, dirs, files, pc, stopped_by, cycle, source_urls, i,
                   batches, batch_urls, sources, a, fetches, crawl_raised, save_vars>>

\* Line 153: every source is submitted, the main thread waits in as_completed
SubmitDone ==
    /\ pc = "submit"
    /\ k > Len(sources)
    /\ pc' = "as_completed"
    /\ UNCHANGED <<san_vars, env_vars, configFile, config, base_archive_directory,
                   first_run, dirs, files, stopped_by, cycle, source_urls, i,
                   crawler_vars, save_vars>>

\* A pool that starts a task whenever one is queued, whatever max_workers is
may_start_unbounded(f, j, workers) ==
    /\ f[j] = "queued"
    /\ \A q \in Indices(f, "queued") : j <= q

\* ThreadPoolExecutor(max_workers): a worker thread takes the oldest queued
\* task, and there are at most max_workers worker threads
may_start(f, j, workers) ==
    /\ f[j] = "queued"
    /\ \A q \in Indices(f, "queued") : j <= q
    /\ Cardinality(Indices(f, "running")) < workers

\* A worker thread enters build_source(source) and calls source.build() (141-143)
StartBuild(j) ==
    /\ may_start(futures, j, max_workers)
    /\ futures' = [futures EXCEPT ![j] = "running"]
    /\ sources' = [sources EXCEPT ![j].build_calls = @ + 1]
    /\ UNCHANGED <<san_vars, env_vars, configFile, config, base_archive_directory,
                   first_run, dirs, files, pc, stopped_by, cycle, source_urls, i,
                   batches, batch_urls, k, a, fetches, crawl_raised, save_vars>>

\* The number of articles the site behind url has on its front page
front_page(url) ==
    CASE url = "http://bbc.example" -> MaxArticles
      [] url = "http://cnn.example" -> 1
      [] url = "http://news.bbc.example" -> 1
      [] OTHER -> 0

\* source.articles after a build() that found n articles
discovered(n) == [j \in 1..n |-> [title |-> Published[j].title,
                                  publish_date |-> Published[j].publish_date,
                                  state |-> "new", attempts |-> 0]]

\* An executor that drops the tasks still queued once a task has failed
after_build_cancelling(f, j, raised) ==
    IF raised
    THEN [q \in 1..Len(f) |-> IF q = j \/ f[q] = "queued" THEN "done" ELSE f[q]]
    ELSE [f EXCEPT ![j] = "done"]

\* A task whose failure is never reported to the thread in as_completed
after_build_unreported(f, j, raised) == [f EXCEPT ![j] = IF raised THEN "lost" ELSE "done"]

\* The futures once task j has left build_source: build_source catches what
\* build() raises (145-146), so the task ends normally either way and the
\* other tasks are not touched
after_build(f, j, raised) == [f EXCEPT ![j] = "done"]

\* source.build() returns with the articles of the front page
BuildReturns(j) ==
    /\ j \in Indices(futures, "running")
    /\ sources' = [sources EXCEPT ![j].build = "returned",
                                  ![j].articles = discovered(front_page(sources[j].url))]
    /\ futures' = after_build(futures, j, FALSE)
    /\ UNCHANGED <<san_vars, env_vars, configFile, config, base_archive_directory,
                   first_run, dirs, files, pc, stopped_by, cycle, source_urls, i,
                   batches, batch_urls, k, a, fetches, crawl_raised, save_vars>>

\* source.build() raises: logged at line 146, the source keeps no articles
BuildRaises(j) ==
    /\ j \in Indices(futures, "running")
    /\ sources' = [sources EXCEPT ![j].build = "raised"]
    /\ futures' = after_build(futures, j, TRUE)
    /\ UNCHANGED <<san_vars, env_vars, configFile, config, base_archive_directory,
                   first_run, dirs, files, pc, stopped_by, cycle, source_urls, i,
                   batches, batch_urls, k, a, fetches, crawl_raised, save_vars>>

\* A build_sources that returns as soon as one task has ended
builds_joined_first_completed(f) == f = <<>> \/ \E j \in 1..Len(f) : f[j] = "done"

\* The end of the with block (151-158): as_completed has yielded every future
\* and the executor's shutdown has joined its worker threads
builds_joined(f) == AllIn(f, {"done"})

\* Line 159: build_sources returns
BuildSourcesReturn ==
    /\ pc = "as_completed"
    /\ builds_joined(futures)
    /\ pc' = "crawl"
    /\ UNCHANGED <<san_vars, env_vars, configFile, config, base_archive_directory,
                   first_run, dirs, files, stopped_by, cycle, source_urls, i,
                   crawler_vars, save_vars>>

-----------------------------------------------------------------------------
(* NewsCrawler.crawl_articles, scraper.py 163-169 *)

\* fetch_news starts: one task per source on a pool of fetch_threads threads
start_fetches(n) == [j \in 1..n |-> IF j <= fetch_threads THEN "running" ELSE "queued"]

\* Line 166, the call of fetch_news
CrawlArticles ==
    /\ pc = "crawl"
    /\ fetches' = start_fetches(Len(sources))
    /\ pc' = "fetch_news"
    /\ UNCHANGED <<san_vars, env_vars, configFile, config, base_archive_directory,
                   first_run, dirs, files, stopped_by, cycle, source_urls, i,
                   batches, batch_urls, sources, k, a, futures, crawl_raised, save_vars>>

\* The fetch of source j ends, with or without an exception, and its thread
\* takes the oldest queued fetch
after_fetch(f, j, result) ==
    LET queued == Indices(f, "queued") IN
    [q \in 1..Len(f) |->
        IF q = j THEN result
        ELSE IF q \in queued /\ \A r \in queued : q <= r THEN "running"
        ELSE f[q]]

FetchEnds(j) ==
    /\ j \in Indices(fetches, "running")
    /\ \E result \in {"fetched", "failed"} : fetches' = after_fetch(fetches, j, result)
    /\ UNCHANGED <<san_vars, env_vars, configFile, config, base_archive_directory,
                   first_run, dirs, files, pc, stopped_by, cycle, source_urls, i,
                   batches, batch_urls, sources, k, a, futures, crawl_raised, save_vars>>

\* fetch_news returns or raises once every fetch has ended
fetches_joined(f) == AllIn(f, {"fetched", "failed"})

\* The first article at or after position (s, n) in the order of the two loops
\* of extract_information, <<Len(srcs) + 1, 1>> when there is none
RECURSIVE next_article(_, _, _)
next_article(srcs, s, n) ==
    IF s > Len(srcs) THEN <<Len(srcs) + 1, 1>>
    ELSE IF n <= Len(srcs[s].articles) THEN <<s, n>>
    ELSE next_article(srcs, s + 1, 1)

\* A batch that gives up its extraction when fetch_news has raised
first_article_unless_raised(srcs, raised) ==
    IF raised THEN <<Len(srcs) + 1, 1>> ELSE next_article(srcs, 1, 1)

\* Line 220 follows line 219 whether or not the except of line 168 was taken:
\* the extraction begins at the first article of the first source that has one
first_article(srcs, raised) == next_article(srcs, 1, 1)

\* Lines 167-169: fetch_news returned, or raised and the exception was logged;
\* either way crawl_articles returns and line 220 calls extract_information
CrawlArticlesReturn ==
    /\ pc = "fetch_news"
    /\ fetches_joined(fetches)
    /\ crawl_raised' = (Indices(fetches, "failed") # {})
    /\ k' = first_article(sources, crawl_raised')[1]
    /\ a' = first_article(sources, crawl_raised')[2]
    /\ pc' = "extract"
    /\ UNCHANGED <<san_vars, env_vars, configFile, config, base_archive_directory,
                   first_run, dirs, files, stopped_by, cycle, source_urls, i,
                   batches, batch_urls, sources, futures, fetches, save_vars>>

-----------------------------------------------------------------------------
(* NewsCrawler.extract_information, scraper.py 171-185 *)

\* The call of save_article at line 181, or on its own, with the globals of the run
saved(article, brand, env) ==
    save_article(article, brand, base_archive_directory, os_type, str_zero_pad,
                 dirs, files, env)

\* A loop whose try block is around the loops instead of inside them: the first
\* article that raises ends the extraction
after_article_aborting(srcs, s, n, raised) ==
    IF raised THEN <<Len(srcs) + 1, 1>> ELSE next_article(srcs, s, n + 1)

\* A loop that takes an article again when one of its steps has raised
after_article_retrying(srcs, s, n, raised) ==
    IF raised THEN <<s, n>> ELSE next_article(srcs, s, n + 1)

\* Where the loops go after article n of source s: the except of line 182 is
\* inside the article loop, so the next article follows, raised or not
after_article(srcs, s, n, raised) == next_article(srcs, s, n + 1)

\* A loop that hands the article to save_article although one of its steps
\* has raised
ArticleRaisesAndIsSaved ==
    /\ pc = "extract"
    /\ k <= Len(sources)
    /\ LET r == saved(sources[k].articles[a], sources[k].brand, "ok")
       IN dirs' = r.dirs /\ files' = r.files
    /\ sources' = [sources EXCEPT ![k].articles[a].state = "raised",
                                  ![k].articles[a].attempts = @ + 1]
    /\ k' = after_article(sources, k, a, TRUE)[1]
    /\ a' = after_article(sources, k, a, TRUE)[2]
    /\ UNCHANGED <<san_vars, env_vars, configFile, config, base_archive_directory,
                   first_run, pc, stopped_by, cycle, source_urls, i, batches,
                   batch_urls, futures, fetches, crawl_raised, save_vars>>

\* download(), parse() or nlp() of the current article raises (178-180, 182)
ArticleRaises ==
    /\ pc = "extract"
    /\ k <= Len(sources)
    /\ sources' = [sources EXCEPT ![k].articles[a].state = "raised",
                                  ![k].articles[a].attempts = @ + 1]
    /\ k' = after_article(sources, k, a, TRUE)[1]
    /\ a' = after_article(sources, k, a, TRUE)[2]
    /\ UNCHANGED <<san_vars, env_vars, configFile, config, base_archive_directory,
                   first_run, dirs, files, pc, stopped_by, cycle, source_urls, i,
                   batches, batch_urls, futures, fetches, crawl_raised, save_vars>>

\* The three steps succeed and the article is handed to save_article (181),
\* which catches whatever goes wrong inside it
ArticleSaved(envs) ==
    /\ pc = "extract"
    /\ k <= Len(sources)
    /\ \E env \in envs :
         LET r == saved(sources[k].articles[a], sources[k].brand, env)
         IN dirs' = r.dirs /\ files' = r.files
    /\ sources' = [sources EXCEPT ![k].articles[a].state = "save_article",
                                  ![k].articles[a].attempts = @ + 1]
    /\ k' = after_article(sources, k, a, FALSE)[1]
    /\ a' = after_article(sources, k, a, FALSE)[2]
    /\ UNCHANGED <<san_vars, env_vars, configFile, config, base_archive_directory,
                   first_run, pc, stopped_by, cycle, source_urls, i, batches, batch_urls,
                   futures, fetches, crawl_raised, save_vars>>

\* A batch loop that goes on while the articles of the last source are pending
extraction_over_early(srcs, s) == s >= Len(srcs)

\* The loop over self.sources has ended
extraction_over(srcs, s) == s > Len(srcs)

\* extract_information returns and the batch loop takes its next step
ExtractReturn ==
    /\ pc = "extract"
    /\ extraction_over(sources, k)
    /\ i' = i + sources_per_batch
    /\ pc' = "batch"
    /\ UNCHANGED <<san_vars, env_vars, configFile, config, base_archive_directory,
                   first_run, dirs, files, stopped_by, cycle, source_urls,
                   crawler_vars, save_vars>>

-----------------------------------------------------------------------------
(* The environment: Ctrl-C and the editor of config.yml *)

\* An interrupt that leaves the with block without waiting for the workers
quiet_not_awaited == TRUE

\* No task of either pool is queued or running
quiet == /\ AllIn(futures, {"unsubmitted", "done"})
         /\ AllIn(fetches, {"idle", "fetched", "failed"})

\* KeyboardInterrupt in the main thread: no except Exception catches it, it
\* leaves the loops and reaches line 227. Inside a with block of an executor
\* the exit of the block first joins the worker threads.
Interrupt ==
    /\ pc \notin {"stopped", "shutdown"}
    /\ stopped_by' = "interrupt"
    /\ pc' = IF quiet THEN "stopped" ELSE "shutdown"
    /\ UNCHANGED <<san_vars, env_vars, configFile, config, base_archive_directory,
                   first_run, dirs, files, cycle, source_urls, i, crawler_vars,
                   save_vars>>

\* The executor has joined its threads and the interrupt goes on to line 227
ShutdownDone ==
    /\ pc = "shutdown"
    /\ quiet
    /\ pc' = "stopped"
    /\ UNCHANGED <<san_vars, env_vars, configFile, config, base_archive_directory,
                   first_run, dirs, files, stopped_by, cycle, source_urls, i,
                   crawler_vars, save_vars>>

\* Somebody adds a source to config.yml or removes the last one while the
\* crawler runs. The program opens the file at line 199 only, so neither the
\* moment nor the number of the edits makes a difference to it; the model
\* follows one edit, made between two cycles.
EditConfig ==
    /\ pc = "cycle"
    /\ configFile = config
    /\ \E list \in ConfigLists :
         /\ Len(list) \in {Len(configFile) - 1, Len(configFile) + 1}
         /\ configFile' = list
    /\ UNCHANGED <<san_vars, env_vars, config, base_archive_directory, first_run,
                   dirs, files, pc, stopped_by, cycle, source_urls, i, crawler_vars,
                   save_vars>>

-----------------------------------------------------------------------------
(* The program *)

\* One step of the program, on a disk whose behaviour during save_article is
\* one of envs
Program(envs) ==
    \/ Startup
    \/ StartCycle
    \/ BeginBatch
    \/ EndCycle
    \/ NewsCrawlerInit
    \/ Submit
    \/ SubmitDone
    \/ \E j \in 1..Len(futures) : StartBuild(j)
    \/ \E j \in 1..Len(futures) : BuildReturns(j)
    \/ \E j \in 1..Len(futures) : BuildRaises(j)
    \/ BuildSourcesReturn
    \/ CrawlArticles
    \/ \E j \in 1..Len(fetches) : FetchEnds(j)
    \/ CrawlArticlesReturn
    \/ ArticleRaises
    \/ ArticleSaved(envs)
    \/ ExtractReturn
    \/ ShutdownDone

\* One step of the program or of its environment
Step(envs) == Program(envs) \/ Interrupt \/ EditConfig

\* The pipeline over several cycles; sites, network and interpreter may fail,
\* the archive disk works
Next == Step({"ok"})

Spec == Init /\ [][Next]_vars

\* The pipeline on one machine when every call the program makes returns or
\* raises in the end and the main thread and the worker threads are scheduled:
\* a step of the program that stays possible is taken. Nothing is assumed of
\* Ctrl-C and of the editor.
InitFair == Init /\ os_type = "Windows"

SpecFair == InitFair /\ [][Next]_vars /\ WF_vars(Program({"ok"}))

\* One cycle of the pipeline on a disk that may fail in every way of SaveEnvs
InitFaultyDisk ==
    /\ Init
    /\ run_once
    /\ Len(configFile) >= 2
    /\ max_workers = 2

NextFaultyDisk == Step(SaveEnvs)

SpecFaultyDisk == InitFaultyDisk /\ [][NextFaultyDisk]_vars

\* The same cycle when every call the program makes returns or raises in the
\* end and the threads are scheduled
SpecFairFaultyDisk == SpecFaultyDisk /\ WF_vars(Program(SaveEnvs))

-----------------------------------------------------------------------------
(* clean_filename, extract_year_month_day and save_article driven on their own *)

MaxTitleLen == 2         \* the longest of the short titles
MaxSaves == 2            \* calls of save_article that are followed

TitleChars == {"a", ".", " ", ":", "/", "'", "U+00E9", "U+00DF", "U+00AB", "U+2019"}

ShortTitles == UNION {[1..n -> TitleChars] : n \in 0..MaxTitleLen}

\* Titles around the length limit: a long run of letters and a last character
LongTitles == {Rep("a", n) \o t : n \in (max_length - 2)..(max_length + 1),
                                  t \in {<<>>, <<".">>, <<":">>, <<"U+00DF">>}}

Titles == {StrVal(t) : t \in ShortTitles \cup LongTitles} \cup {None}

\* The pipeline is not running
Off ==
    /\ configFile = <<>>
    /\ config = <<>>
    /\ run_once = TRUE
    /\ max_workers = 1
    /\ sources_per_batch = 1
    /\ first_run = TRUE
    /\ pc = "off"
    /\ stopped_by = "running"
    /\ cycle = 0
    /\ source_urls = <<>>
    /\ i = 0
    /\ IdleCrawler

InitSanitize ==
    /\ title \in Titles
    /\ title_clean = NotRun
    /\ os_type \in OsTypes
    /\ str_zero_pad = TRUE
    /\ base_archive_directory = no_path
    /\ dirs = {cwd}
    /\ files = {}
    /\ Off

\* The call clean_filename(title, os_type)
CleanFilename ==
    /\ title_clean = NotRun
    /\ title_clean' = StrVal(clean_filename(title, os_type))
    /\ UNCHANGED <<title, env_vars, configFile, config, base_archive_directory,
                   first_run, dirs, files, pc, stopped_by, cycle, source_urls, i,
                   crawler_vars, save_vars>>

NextSanitize == CleanFilename

SpecSanitize == InitSanitize /\ [][NextSanitize]_vars

\* The dates an article may carry: the two supported kinds, strings the format
\* does not match, strings it matches that name no date, and other values
Dates ==
    {StrVal(<<"2", "0", "2", "4", "-", "0", "3", "-", "0", "5", "T",
              "1", "0", ":", "0", "0", ":", "0", "0">>),
     StrVal(<<"2", "0", "2", "4", "-", "3", "-", "5", "T", "1", ":", "2", ":", "3">>),
     StrVal(<<"2", "0", "2", "4", "-", "0", "3", "-", "0", "5", "T",
              "1", "0", ":", "0", "0", ":", "0", "0", "Z">>),
     StrVal(<<"2", "0", "2", "4", "-", "0", "3", "-", "0", "5">>),
     StrVal(<<"2", "0", "2", "4", "-", "0", "3", "-", "0", "5", " ",
              "1", "0", ":", "0", "0", ":", "0", "0">>),
     StrVal(<<"M", "a", "r", " ", "5">>),
     StrVal(<<>>),
     StrVal(<<"2", "0", "2", "3", "-", "0", "2", "-", "2", "9", "T",
              "1", "0", ":", "0", "0", ":", "0", "0">>),
     DatetimeVal(2023, 12, 31),
     DatetimeVal(5, 1, 9),
     IntVal(1709632800),
     None}

DatedArticles ==
    {[title |-> t, publish_date |-> d] :
        t \in {StrVal(<<"U+00E9", ":", "a">>), None}, d \in Dates}

PublishedArticles == {Published[j] : j \in 1..Len(Published)}

Brands == {brand_of(AllUrls[1]), brand_of(AllUrls[2])}

InitSave ==
    /\ IdleSanitizer
    /\ \E m \in Machines :
         /\ os_type = m[1]
         /\ str_zero_pad = m[2]
         /\ base_archive_directory = IF m[3] THEN configured_base ELSE local_directory
         /\ dirs = {cwd} \cup Prefixes(IF m[3] THEN configured_base ELSE local_directory)
    /\ files = {}
    /\ Off

\* A call save_article(article, source, base_archive_directory, os_type) with an
\* article of the given set, as long as fewer than max calls were made
SaveCall(articles, max) ==
    /\ calls < max
    /\ calls' = calls + 1
    /\ \E article \in articles, brand \in Brands, env \in SaveEnvs :
         LET r == saved(article, brand, env)
         IN /\ dirs' = r.dirs
            /\ files' = r.files
            /\ last_save' = [t |-> "call", title |-> article.title,
                             publish_date |-> article.publish_date,
                             brand |-> brand, env |-> env, ymd |-> r.ymd,
                             raised |-> r.raised,
                             save_directory |-> r.save_directory,
                             filename |-> r.filename, wrote |-> r.wrote]
            /\ resolved' = IF r.save_directory = no_path THEN resolved
                           ELSE resolved \cup
                                {[title |-> article.title,
                                  publish_date |-> article.publish_date,
                                  brand |-> brand,
                                  save_directory |-> r.save_directory,
                                  filename |-> r.filename]}
    /\ UNCHANGED <<san_vars, env_vars, configFile, config, base_archive_directory,
                   first_run, pc, stopped_by, cycle, source_urls, i, crawler_vars>>

\* One save of an article with any of the dates
NextDates == SaveCall(DatedArticles, 1)

SpecDates == InitSave /\ [][NextDates]_vars

\* Several saves of the published articles into one archive tree
NextSave == SaveCall(PublishedArticles, MaxSaves)

SpecSave == InitSave /\ [][NextSave]_vars

-----------------------------------------------------------------------------
(* Properties of clean_filename (SpecSanitize) *)

\* The characters a file name must not hold
ReservedChars == {"<", ">", ":", "\"", "/", "\\", "|", "?", "*", "'"}

HasAny(s, chars) == \E j \in 1..Len(s) : s[j] \in chars

\* C5 as stated: for every title and every os_type, clean_filename returns a
\* string of at most max_length characters that holds none of the reserved
\* characters < > : " / \ | ? * and single quote.
C5_BoundedAndCleanEverywhere ==
    title_clean.t = "str" =>
        /\ Len(title_clean.v) <= max_length
        /\ ~HasAny(title_clean.v, ReservedChars)

\* C5 amended: clean_filename always returns a string; when os_type is Linux the
\* string holds none of < > : " / \ | ? * and single quote (its length is not
\* bounded); for every other os_type the string has at most max_length
\* characters and holds none of < > : " / \ | ? * (single quotes stay).
C5_CleanPerPlatform ==
    title_clean # NotRun =>
        /\ title_clean.t = "str"
        /\ IF lower(os_type) = "linux"
           THEN ~HasAny(title_clean.v, ReservedChars)
           ELSE /\ Len(title_clean.v) <= max_length
                /\ ~HasAny(title_clean.v, ReservedChars \ {"'"})

\* A title longer than max_length whose transliteration holds a reserved
\* character has been cleaned for Windows
C5_Witness ==
    /\ title.t = "str"
    /\ Len(title.v) > max_length
    /\ HasAny(unidecode(title.v), ReservedChars)
    /\ os_type = "Windows"
    /\ title_clean.t = "str"
    /\ Len(title_clean.v) = max_length

-----------------------------------------------------------------------------
(* Properties of extract_year_month_day and save_article (SpecDates, SpecSave) *)

\* The text has the shape of the format %Y-%m-%dT%H:%M:%S: four digits for the
\* year and one or two for every other field, with the separators of the format
matches_format(text) ==
    LET tk == tokens(text) IN
    /\ Len(tk) = 11
    /\ tk[2] = <<"-">> /\ tk[4] = <<"-">> /\ tk[6] = <<"T">>
    /\ tk[8] = <<":">> /\ tk[10] = <<":">>
    /\ \A j \in {1, 3, 5, 7, 9, 11} : \A c \in 1..Len(tk[j]) : IsDigit(tk[j][c])
    /\ Len(tk[1]) = 4
    /\ \A j \in {3, 5, 7, 9, 11} : Len(tk[j]) \in 1..2

unsupported(date) ==
    /\ date.t # "datetime"
    /\ ~(date.t = "str" /\ matches_format(date.v))

\* C6: for every publish_date that is neither a datetime nor a string in the
\* format (an absent date included), extract_year_month_day returns three Nones,
\* and save_article resolves the directory base/brand/0/0 and writes the
\* article there whenever the disk lets it.
C6_UndatedSavedUnderZero ==
    (last_save.t = "call" /\ unsupported(last_save.publish_date)) =>
        /\ last_save.ymd = no_year_month_day
        /\ last_save.raised \in {"none", "create_directories", "to_json"}
        /\ last_save.save_directory =
               base_archive_directory \o <<last_save.brand, <<"0">>, <<"0">>>>
        /\ last_save.env = "ok" =>
               /\ last_save.wrote
               /\ last_save.save_directory \o <<last_save.filename>> \in files

\* An article whose date is a string the format does not match was written
\* under base/brand/0/0
C6_Witness ==
    /\ last_save.t = "call"
    /\ last_save.publish_date.t = "str"
    /\ unsupported(last_save.publish_date)
    /\ last_save.wrote
    /\ \E f \in files :
         f = base_archive_directory \o <<last_save.brand, <<"0">>, <<"0">>,
                                         last_save.filename>>

\* C7: two saves with the same brand, publish_date and title resolve to the same
\* directory and the same file name, whatever was saved in between and whatever
\* the archive tree holds.
C7_PathDeterminedByKey ==
    \A r1 \in resolved, r2 \in resolved :
        (r1.brand = r2.brand /\ r1.publish_date = r2.publish_date
         /\ r1.title = r2.title)
        => (r1.save_directory = r2.save_directory /\ r1.filename = r2.filename)

\* The same article of the same brand was saved twice, the second time into a
\* tree that already held its file
C7_Witness ==
    /\ calls = 2
    /\ Cardinality(resolved) = 1
    /\ last_save.wrote
    /\ Cardinality(files) = 1

-----------------------------------------------------------------------------
(* Properties of the pipeline (Spec, SpecFaultyDisk) *)

\* Every article of every source the crawler holds has been taken by the loop
\* of extract_information
all_attempted ==
    \A s \in 1..Len(sources) :
        \A n \in 1..Len(sources[s].articles) : sources[s].articles[n].state # "new"

some_attempted ==
    \E s \in 1..Len(sources) :
        \E n \in 1..Len(sources[s].articles) : sources[s].articles[n].state # "new"

\* p is path or a directory above it
IsPrefix(p, path) == Len(p) <= Len(path) /\ SubSeq(path, 1, Len(p)) = p

\* C1: batches of one cycle are processed one after the other: when the batch
\* loop takes its next batch, every build task of the batch before it has
\* ended, no fetch of it is queued or running, and every article of it has been
\* taken by the extraction.
C1_BatchesSequential ==
    [][(pc' = "init" /\ pc # "init") =>
          /\ pc = "batch"
          /\ AllIn(futures, {"done"})
          /\ AllIn(fetches, {"fetched", "failed"})
          /\ \A s \in 1..Len(sources) : sources[s].build # "not_called"
          /\ all_attempted]_vars

\* The second batch of a cycle begins after a batch of two sources whose
\* articles have all been taken
C1_Witness ==
    /\ pc = "init"
    /\ i > 0
    /\ Len(sources) = 2
    /\ some_attempted
    /\ all_attempted
    /\ AllIn(futures, {"done"})
    /\ AllIn(fetches, {"fetched", "failed"})

\* C2: inside a batch the phases are separated by barriers: build_sources has
\* returned only when every build task has ended, no fetch has begun while a
\* build task is queued or running, and no article is taken by the extraction
\* before every fetch has ended.
C2_PhaseBarriers ==
    /\ pc \in {"crawl", "fetch_news", "extract"} => AllIn(futures, {"done"})
    /\ (\E j \in 1..Len(fetches) : fetches[j] # "idle") => AllIn(futures, {"done"})
    /\ (pc = "extract" \/ some_attempted) =>
           /\ AllIn(futures, {"done"})
           /\ AllIn(fetches, {"fetched", "failed"})

\* Two builds ran side by side and ended, one by raising, and the fetch of one
\* source is still running while the other has ended
C2_Witness ==
    /\ pc = "fetch_news"
    /\ max_workers = 2
    /\ Len(sources) = 2
    /\ AllIn(futures, {"done"})
    /\ \E j \in 1..2 : fetches[j] = "running"
    /\ \E j \in 1..2 : fetches[j] \in {"fetched", "failed"}

\* C3: whichever builds raise and in whatever order the worker threads run
\* them, build_sources returns normally, and by then build() has been called
\* on every source of the crawler; the run is never ended by an error after
\* start-up.
C3_BuildFailuresIsolated ==
    /\ (pc \in {"crawl", "fetch_news", "extract"}) =>
           \A j \in 1..Len(sources) : sources[j].build \in {"returned", "raised"}
    /\ stopped_by = "error" => cycle = 0

\* build_sources has returned although the first build raised, and the build
\* of the second source, started after it on the only worker, returned
C3_Witness ==
    /\ pc = "crawl"
    /\ max_workers = 1
    /\ Len(sources) = 2
    /\ sources[1].build = "raised"
    /\ sources[2].build = "returned"

\* C4: whichever articles fail, in a site step or inside save_article,
\* extract_information returns normally having taken every article of every
\* source of the batch.
C4_ArticleFailuresIsolated ==
    /\ pc \in {"batch", "cycle", "init"} => all_attempted
    /\ stopped_by = "run_once" => all_attempted
    /\ stopped_by = "error" => cycle = 0

\* The extraction has returned after the first article of the first source
\* raised in a site step, a save failed while it made the directories, and
\* the articles after them, the one of the second source included, were taken
C4_Witness ==
    /\ pc = "batch"
    /\ Len(sources) = 2
    /\ Len(sources[1].articles) = 2
    /\ Len(sources[2].articles) = 1
    /\ sources[1].articles[1].state = "raised"
    /\ sources[1].articles[2].state = "save_article"
    /\ sources[2].articles[1].state = "save_article"
    /\ base_archive_directory \o <<sources[1].brand>> \in dirs
    /\ \A d \in dirs : ~(IsPrefix(base_archive_directory, d)
                          /\ Len(d) > Len(base_archive_directory) + 1)
    /\ files = {}

\* C8: once start-up is over the base directory of the run exists; it is the
\* configured directory, or else the fallback ./archive/news, used only when the
\* configured directory does not exist; and every file written lies under it.
C8_FallbackBase ==
    /\ (pc \notin {"start", "stopped", "shutdown"}) => base_archive_directory # no_path
    /\ base_archive_directory = no_path => files = {}
    /\ base_archive_directory # no_path =>
           /\ base_archive_directory \in dirs
           /\ base_archive_directory \in {configured_base, local_directory}
           /\ base_archive_directory = local_directory => configured_base \notin dirs
           /\ \A f \in files : IsPrefix(base_archive_directory, f)

\* The configured directory does not exist, the fallback was made, and an
\* article was written under it
C8_Witness ==
    /\ configured_base \notin dirs
    /\ base_archive_directory = local_directory
    /\ local_directory \in dirs
    /\ \E f \in files : IsPrefix(local_directory, f)

\* C9: with run_once the program stops in the end, by itself only after the
\* one cycle it runs, when every batch of that cycle is done, and it never
\* starts a second cycle; without run_once the end of a cycle leads back to the
\* head of the loop and the program never stops by itself once the loop has
\* begun.
C9_RunOnceTermination ==
    /\ [](/\ run_once => cycle <= 1
          /\ stopped_by = "run_once" =>
                 /\ run_once
                 /\ pc = "stopped"
                 /\ cycle = 1
                 /\ i >= Len(source_urls)
          /\ (~run_once /\ pc = "stopped") =>
                 \/ stopped_by = "interrupt"
                 \/ stopped_by = "error" /\ cycle = 0)
    /\ [][(pc = "batch" /\ i >= Len(source_urls) /\ pc' # "batch"
            /\ stopped_by' # "interrupt") =>
              IF run_once
              THEN pc' = "stopped" /\ stopped_by' = "run_once"
              ELSE pc' = "cycle" /\ stopped_by' = "running"]_vars
    /\ [][(pc = "cycle" /\ pc' # "cycle" /\ stopped_by' # "interrupt") =>
              /\ ~run_once \/ cycle = 0
              /\ pc' = "batch"
              /\ cycle' = cycle + 1]_vars
    /\ run_once ~> (pc = "stopped")

\* A run with run_once has stopped by itself after a cycle of two batches
C9_Witness ==
    /\ run_once
    /\ pc = "stopped"
    /\ stopped_by = "run_once"
    /\ cycle = 1
    /\ Len(source_urls) > sources_per_batch
    /\ i >= Len(source_urls)

\* A run without run_once has begun its second cycle
C9_WitnessLoop ==
    /\ ~run_once
    /\ cycle = 2
    /\ pc = "batch"

\* C10 as stated: the list a cycle partitions is the source list of config.yml
\* as the file is when the cycle starts.
C10_SourcesFromLiveConfig ==
    [][(pc = "cycle" /\ pc' = "batch") =>
          source_urls' = [j \in 1..Len(configFile) |-> configFile[j].base_url]]_vars

\* C10 amended: the list a cycle partitions is computed anew at the start of
\* every cycle, from the configuration object loaded once at start-up; the
\* object is never loaded again, so the list is the source list config.yml had
\* at start-up whatever the file holds when the cycle starts.
C10_SourcesFromLoadedConfig ==
    /\ [][(pc = "start" /\ pc' # "start" /\ stopped_by' # "interrupt") =>
              config' = configFile]_vars
    /\ [][pc # "start" => config' = config]_vars
    /\ [][(pc = "cycle" /\ pc' = "batch") =>
              source_urls' = [j \in 1..Len(config) |-> config[j].base_url]]_vars

\* The second cycle partitions the list of start-up although config.yml has
\* since got another source
C10_Witness ==
    /\ cycle = 2
    /\ pc = "batch"
    /\ Len(configFile) > Len(config)
    /\ Len(source_urls) = Len(config)
    /\ \A j \in 1..Len(config) : source_urls[j] = config[j].base_url

-----------------------------------------------------------------------------
(* Properties of the interrupt (Spec) *)

\* The main thread is between two cycles: before the first one, at the head of
\* the while loop, or after the last batch of a cycle
between_cycles ==
    \/ pc \in {"start", "cycle"}
    \/ pc = "batch" /\ i >= Len(source_urls)

\* Every task handed to a pool has come to its end
workers_joined ==
    /\ \A j \in 1..Len(futures) : futures[j] \notin {"queued", "running"}
    /\ \A j \in 1..Len(fetches) : fetches[j] \notin {"queued", "running"}

\* C11 as stated: an interrupt never cancels a batch in progress; the program
\* passes from running to stopped because of an interrupt only at a boundary
\* between two cycles.
C11_InterruptOnlyBetweenCycles ==
    [][(stopped_by = "running" /\ stopped_by' = "interrupt") => between_cycles]_vars

\* C11 amended: an interrupt is taken wherever the main thread is, inside a
\* batch included. From then on the main thread takes no further step of the
\* pipeline: no batch is begun, no fetch is started, no article is attempted
\* and nothing is written; the build and fetch tasks already handed to a pool
\* still run to their end, and the program has stopped only when none of them
\* is queued or running.
C11_InterruptAbandonsBatch ==
    /\ [][stopped_by = "interrupt" =>
              /\ pc' \in {"shutdown", "stopped"}
              /\ stopped_by' = "interrupt"
              /\ <<cycle, i, batches, batch_urls, k, a, dirs, files>>' =
                     <<cycle, i, batches, batch_urls, k, a, dirs, files>>
              /\ Len(sources') = Len(sources)
              /\ \A j \in 1..Len(fetches) :
                     fetches[j] = "idle" => fetches'[j] = "idle"
              /\ \A j \in 1..Len(futures) :
                     futures[j] = "unsubmitted" => futures'[j] = "unsubmitted"]_vars
    /\ [][(stopped_by = "running" /\ stopped_by' = "interrupt") =>
              /\ pc' = (IF workers_joined THEN "stopped" ELSE "shutdown")
              /\ <<sources, futures, fetches, dirs, files>>' =
                     <<sources, futures, fetches, dirs, files>>]_vars
    /\ []((stopped_by = "interrupt" /\ pc = "stopped") => workers_joined)

\* An interrupt has stopped the program in the middle of the extraction of a
\* batch that is not the last of its cycle: one article was attempted, another
\* of the same batch never will be
C11_Witness ==
    /\ stopped_by = "interrupt"
    /\ pc = "stopped"
    /\ i + sources_per_batch < Len(source_urls)
    /\ some_attempted
    /\ ~all_attempted

\* An interrupt during build_sources has stopped the program after the two
\* builds that were running or queued came to their end
C11_WitnessJoined ==
    /\ stopped_by = "interrupt"
    /\ pc = "stopped"
    /\ Len(futures) = 2
    /\ AllIn(futures, {"done"})
    /\ AllIn(fetches, {"idle"})

-----------------------------------------------------------------------------
(* Properties of the first-cycle flag (Spec) *)

\* C12: first_run is true until the first cycle is over and its only change is
\* from true to false: once false it is false in every later state, whatever
\* the number of cycles; NewsCrawler.__init__ cleans the cache of the sources
\* it makes exactly while the flag is true.
C12_FirstRunMonotone ==
    /\ [](cycle = 0 => first_run)
    /\ [][first_run' => first_run]_vars
    /\ [][(pc = "init" /\ pc' = "submit") =>
              \A j \in 1..Len(sources') : sources'[j].cache_cleaned = first_run]_vars

\* The flag was cleared at the end of the first cycle, the second cycle made
\* its sources without cleaning their cache and has ended, and the flag is
\* still false
C12_Witness ==
    /\ ~first_run
    /\ cycle = 2
    /\ pc = "cycle"
    /\ Len(sources) > 0
    /\ \A j \in 1..Len(sources) : ~sources[j].cache_cleaned

-----------------------------------------------------------------------------
(* Properties of the batch loop (Spec) *)

\* The batches that hold url
batches_of(url) == {j \in 1..Len(batches) : \E n \in 1..Len(batches[j]) : batches[j][n] = url}

\* The range of the batch loop is exhausted
batch_loop_over == pc = "batch" /\ i >= Len(source_urls)

\* C13: the list of a cycle is the configured list; the batches taken so far,
\* in the order they were taken, concatenate to the beginning of it, and to the
\* whole of it once the batch loop is over, so that every url is in exactly one
\* batch; every batch but the last has sources_per_batch urls and the last has
\* between 1 and sources_per_batch.
C13_BatchesPartition ==
    /\ cycle >= 1 => source_urls = [j \in 1..Len(config) |-> config[j].base_url]
    /\ Len(Flatten(batches)) <= Len(source_urls)
    /\ Flatten(batches) = SubSeq(source_urls, 1, Len(Flatten(batches)))
    /\ \A j \in 1..Len(batches) :
           /\ Len(batches[j]) \in 1..sources_per_batch
           /\ j < Len(batches) => Len(batches[j]) = sources_per_batch
    /\ batch_loop_over =>
           /\ Flatten(batches) = source_urls
           /\ \A n \in 1..Len(source_urls) :
                  Cardinality(batches_of(source_urls[n])) = 1

\* A cycle over three urls with two urls a batch is over: a full batch and a
\* last batch of one url
C13_Witness ==
    /\ batch_loop_over
    /\ Len(source_urls) = 3
    /\ sources_per_batch = 2
    /\ Len(batches) = 2
    /\ Len(batches[1]) = 2
    /\ Len(batches[2]) = 1

-----------------------------------------------------------------------------
(* Properties of NewsCrawler.__init__ and of the builds (Spec) *)

\* build() was called on a source the crawler made for url
built(url) ==
    \E j \in 1..Len(sources) : sources[j].url = url /\ sources[j].build # "not_called"

\* The position in the batch of the url whose Source object could not be made:
\* the loop of __init__ ends there, so it is the one after the last source
failed_in_init == IF Len(sources) < Len(batch_urls) THEN {Len(sources) + 1} ELSE {}

\* C14: when build_sources has returned, build() was called for every url of
\* the batch whose own Source object did not fail to be made, whatever failed
\* for the other urls of the batch, the making of their Source object in
\* NewsCrawler.__init__ included.
C14_EveryUrlBuilt ==
    pc \in {"crawl", "fetch_news", "extract"} =>
        \A n \in (1..Len(batch_urls)) \ failed_in_init : built(batch_urls[n])

\* C15: nothing is tried twice in a cycle: build() is called at most once on a
\* source, the crawler holds one source for a url of its batch and no url is
\* in two batches of the cycle, and the extraction takes every article at most
\* once, the ones that failed included.
C15_NoRetry ==
    /\ \A j \in 1..Len(sources) :
           /\ sources[j].build_calls <= 1
           /\ sources[j].build # "not_called" => sources[j].build_calls = 1
           /\ pc \in {"submit", "as_completed", "crawl", "fetch_news", "extract"} =>
                  j <= Len(batch_urls) /\ sources[j].url = batch_urls[j]
           /\ \A n \in 1..Len(sources[j].articles) :
                  /\ sources[j].articles[n].attempts <= 1
                  /\ sources[j].articles[n].state # "new" =>
                         sources[j].articles[n].attempts = 1
    /\ \A n \in 1..Len(source_urls) : Cardinality(batches_of(source_urls[n])) <= 1
    /\ \A j \in 1..Len(batches) : \A m, n \in 1..Len(batches[j]) :
           batches[j][m] = batches[j][n] => m = n

\* The last batch of a cycle is over: the build of one of its two sources
\* raised and was called once, and an article of the other raised in a site
\* step and was taken once
C15_Witness ==
    /\ batch_loop_over
    /\ Len(sources) = 2
    /\ \E j \in 1..2 : sources[j].build = "raised" /\ sources[j].build_calls = 1
    /\ \E j \in 1..2 : \E n \in 1..Len(sources[j].articles) :
           /\ sources[j].articles[n].state = "raised"
           /\ sources[j].articles[n].attempts = 1

-----------------------------------------------------------------------------
(* Properties of the extraction (Spec) *)

\* The step takes the current article of the extraction and gives it state st
takes_article(st) ==
    /\ pc = "extract"
    /\ k <= Len(sources)
    /\ sources[k].articles[a].state = "new"
    /\ sources'[k].articles[a].state = st

\* C16: after start-up the archive tree changes only in a step of the
\* extraction that hands to save_article an article whose download, parse and
\* nlp went through; the step in which one of them raises changes nothing on
\* disk, and an article that raised stays so for as long as its crawler lives.
C16_SavedOnlyAfterSteps ==
    /\ [][(pc # "start" /\ <<dirs, files>>' # <<dirs, files>>) =>
              takes_article("save_article")]_vars
    /\ [][takes_article("raised") => <<dirs, files>>' = <<dirs, files>>]_vars
    /\ [][(pc = "extract" /\ pc' = "extract") =>
              \A s \in 1..Len(sources) : \A n \in 1..Len(sources[s].articles) :
                  sources[s].articles[n].state = "raised" =>
                      sources'[s].articles[n].state = "raised"]_vars

\* The first article of a source raised in a site step, the second was saved,
\* and the archive holds one file
C16_Witness ==
    /\ pc = "extract"
    /\ Len(sources) >= 1
    /\ Len(sources[1].articles) = 2
    /\ sources[1].articles[1].state = "raised"
    /\ sources[1].articles[2].state = "save_article"
    /\ Cardinality(files) = 1

-----------------------------------------------------------------------------
(* Properties of the directories of save_article (SpecSave) *)

\* The step is a call of save_article that ended in the except of line 124
\* because create_directories raised
save_failed_on_directory ==
    /\ calls' = calls + 1
    /\ last_save'.raised = "create_directories"

\* C17 as stated: when the save directory cannot be created, no file is
\* written, save_article returns, and the archive tree is as it was before
\* the call; a save directory that exists is not created again and the save
\* goes on.
C17_TreeUnchangedOnFailure ==
    /\ [][save_failed_on_directory =>
              /\ ~last_save'.wrote
              /\ files' = files
              /\ dirs' = dirs]_vars
    /\ [][(calls' = calls + 1 /\ last_save'.save_directory \in dirs) =>
              /\ last_save'.raised # "create_directories"
              /\ dirs' = dirs]_vars

\* C17 amended: when the save directory cannot be created, no file is written
\* and save_article returns; the directories makedirs made above the save
\* directory before it failed stay, nothing else of the tree changes; a save
\* directory that exists is not created again and the save goes on.
C17_NoFileOnDirectoryFailure ==
    /\ [][save_failed_on_directory =>
              /\ ~last_save'.wrote
              /\ files' = files
              /\ dirs \subseteq dirs'
              /\ last_save'.save_directory \notin dirs'
              /\ \A d \in dirs' \ dirs : IsPrefix(d, last_save'.save_directory)]_vars
    /\ [][(calls' = calls + 1 /\ last_save'.save_directory \in dirs) =>
              /\ last_save'.raised # "create_directories"
              /\ dirs' = dirs]_vars

\* makedirs failed after it had made the directory of the brand: the archive
\* holds that directory, not the save directory, and no file
C17_Witness ==
    /\ last_save.t = "call"
    /\ last_save.raised = "create_directories"
    /\ last_save.env = "makedirs_fails_midway"
    /\ base_archive_directory \o <<last_save.brand>> \in dirs
    /\ last_save.save_directory \notin dirs
    /\ files = {}

\* A second save into a directory the first one made went through on a disk
\* where makedirs would have failed
C17_WitnessExists ==
    /\ calls = 2
    /\ last_save.env = "makedirs_fails"
    /\ last_save.raised = "none"
    /\ last_save.wrote

-----------------------------------------------------------------------------
(* Properties of crawl_articles (Spec) *)

\* C18: a failure of fetch_news does not leave crawl_articles: the main thread
\* goes from the fetch to the extraction of the same batch whether or not the
\* fetch raised, the extraction begins at the first article of the batch and,
\* when it is over, has taken every article of every source; the batch loop
\* then goes on, and no error ends the run after start-up.
C18_FetchFailureIsolated ==
    /\ [][(pc = "fetch_news" /\ pc' \notin {"fetch_news", "shutdown", "stopped"}) =>
              /\ pc' = "extract"
              /\ crawl_raised' = (\E j \in 1..Len(fetches) : fetches[j] = "failed")
              /\ <<k', a'>> = next_article(sources, 1, 1)]_vars
    /\ []((crawl_raised /\ pc \in {"batch", "cycle", "init"}) => all_attempted)
    /\ [][(crawl_raised /\ pc = "batch" /\ i < Len(source_urls) /\ pc' # "batch"
            /\ stopped_by' = "running") => pc' = "init"]_vars
    /\ [](stopped_by = "error" => cycle = 0)

\* The second batch of a cycle is begun after a batch whose fetch raised and
\* whose articles were all taken by the extraction
C18_Witness ==
    /\ pc = "init"
    /\ i > 0
    /\ crawl_raised
    /\ \E j \in 1..Len(fetches) : fetches[j] = "failed"
    /\ some_attempted
    /\ all_attempted

-----------------------------------------------------------------------------
(* Properties of the build pool (Spec) *)

\* C19: build_sources has one task for every source of the crawler and submits
\* each of them once, in the order of the sources; at no moment are more than
\* max_workers of them running; and the task of a source is the only one that
\* calls build() on it, so no two running tasks work on the same source.
C19_BoundedBuildPool ==
    /\ [](/\ Len(futures) = Len(sources)
          /\ Cardinality(Indices(futures, "running")) <= max_workers
          /\ pc = "submit" =>
                 \A j \in 1..Len(futures) : (futures[j] = "unsubmitted") = (j >= k)
          /\ pc \in {"as_completed", "crawl", "fetch_news", "extract"} =>
                 \A j \in 1..Len(futures) : futures[j] # "unsubmitted"
          /\ \A j \in 1..Len(sources) :
                 sources[j].build_calls =
                     (IF futures[j] \in {"running", "done"} THEN 1 ELSE 0))
    /\ [][\A j \in 1..Len(futures) :
              (pc # "init" /\ futures[j] # "unsubmitted")
              => futures'[j] # "unsubmitted"]_vars
    /\ [][\A j \in 1..Len(futures) :
              (pc # "init" /\ futures[j] = "unsubmitted"
               /\ futures'[j] # "unsubmitted")
              => /\ pc = "submit" /\ j = k /\ futures'[j] = "queued"
                 /\ \A q \in 1..Len(futures) : q # j => futures'[q] = futures[q]]_vars

\* With one worker, the build of the first source is running and the task of
\* the second waits in the queue
C19_Witness ==
    /\ max_workers = 1
    /\ pc = "as_completed"
    /\ Len(sources) = 2
    /\ futures = <<"running", "queued">>
    /\ sources[1].build_calls = 1
    /\ sources[2].build_calls = 0

\* With two workers, the builds of two sources run side by side
C19_WitnessParallel ==
    /\ max_workers = 2
    /\ futures = <<"running", "running">>

-----------------------------------------------------------------------------
(* Progress of a cycle (SpecFairFaultyDisk) *)

\* A cycle is under way
in_cycle == cycle >= 1 /\ stopped_by = "running" /\ pc # "cycle" /\ ~batch_loop_over

\* C20: when every call returns or raises in the end, a cycle that is under
\* way reaches the end of its batch loop, whichever builds, fetches, site steps
\* and saves fail, unless the user interrupts it; and no error ends the run
\* after start-up.
C20_CycleCompletes ==
    /\ in_cycle ~> (batch_loop_over \/ stopped_by = "interrupt")
    /\ [](stopped_by = "error" => cycle = 0)

\* The batch loop of a cycle is over after a batch in which a build raised,
\* the fetch raised, an article raised in a site step and the save of another
\* wrote nothing
C20_Witness ==
    /\ batch_loop_over
    /\ stopped_by = "running"
    /\ Len(sources) = 2
    /\ \E j \in 1..2 : sources[j].build = "raised"
    /\ crawl_raised
    /\ \E j \in 1..2 :
           /\ Len(sources[j].articles) = 2
           /\ sources[j].articles[1].state = "raised"
           /\ sources[j].articles[2].state = "save_article"
    /\ files = {}

====
